---- MODULE Spec2Model ----
(***************************************************************************)
(* The zenoh tunnel of iceoryx2 (iceoryx2-tunnels/zenoh/src/tunnel.rs):    *)
(* the Tunnel with its two discovery sources and its two connection maps,  *)
(* and the operations discover, propagate and tunneled_services.           *)
(*                                                                         *)
(* The discovery sources and the connections are external: what a source   *)
(* reports, whether it fails, and whether a connection's create or         *)
(* propagate fails are inputs, chosen nondeterministically.                *)
(***************************************************************************)
EXTENDS Integers, Sequences, FiniteSets, TLC

\* Number of distinct service ids the two domains may hold.
NumServiceIds == 2
\* Largest number of services one discovery source reports in one scan.
MaxVisible == 2

ServiceIds == 1 .. NumServiceIds

\* iceoryx2's MessagingPattern; "RequestResponse" stands for every variant
\* that on_discovery handles in its `_` arm.
MessagingPattern == {"PublishSubscribe", "Event", "RequestResponse"}

\* enum Scope
Scope == {"Iceoryx", "Zenoh", "Both"}

\* What on_discovery reads of an IceoryxServiceConfig: service_id() and
\* messaging_pattern(). The `_` arm of on_discovery reads nothing else of the
\* config, so one service of an unsupported pattern stands for all of them.
StaticConfig ==
    [service_id : ServiceIds, messaging_pattern : {"PublishSubscribe", "Event"}]
        \cup [service_id : {1}, messaging_pattern : MessagingPattern]

\* The sets of services a discovery source can report in one scan.
Scans == {v \in SUBSET StaticConfig : Cardinality(v) <= MaxVisible}

VARIABLES
    publish_subscribe_connectons,  \* Tunnel field: service id -> connection
    event_connections,             \* Tunnel field: service id -> connection
    iox_discovery,                 \* the local source in the current discover call
    z_discovery,                   \* the network source in the current discover call
    pc,                            \* position of the driving thread
    scope,                         \* argument of the running (last) discover call
    result,                        \* what the last finished call returned
    pending,                       \* services the running scan has still to report
    failed,                        \* services whose connection creation failed
    last_callback,                 \* the last on_discovery call of the running (last) scan
    create_calls,                  \* per service: calls of Connection::create
    created,                       \* per service: calls of Connection::create that returned Ok
    info_log,                      \* per DISCOVERED(...) event: times it was logged
    todo,                          \* keys the running propagate loop has not visited yet
    propagated,                    \* per map and key: propagate() calls in this propagate
    error_log,                     \* "Failed to propagate" events of this propagate
    services,                      \* the Vec the last tunneled_services returned
    handles                        \* per resource Tunnel::create opens: none, live or dropped

vars == <<publish_subscribe_connectons, event_connections, iox_discovery, z_discovery,
          pc, scope, result, pending, failed, last_callback, create_calls, created,
          info_log, todo, propagated, error_log, services, handles>>

registries == <<publish_subscribe_connectons, event_connections>>
discoverVars == <<iox_discovery, z_discovery, scope, pending, failed, last_callback>>
creationVars == <<create_calls, created, info_log>>
propagateVars == <<todo, propagated, error_log>>

\* The events info! writes in on_discovery: DISCOVERED(source): pattern id.
InfoEvents == [source : {"Iceoryx", "Zenoh"}, pattern : {"PublishSubscribe", "Event"},
               id : ServiceIds]

MapKeys == {"publish_subscribe_connectons", "event_connections"} \X ServiceIds

EmptyMap == [k \in {} |-> 0]

\* contains_key that never finds the key.
ContainsKeyNever(map, key) == FALSE

\* contains_key that looks the key up in both maps.
ContainsKeyAnyMap(map, key) ==
    key \in DOMAIN publish_subscribe_connectons \cup DOMAIN event_connections

\* HashMap::contains_key
ContainsKey(map, key) == key \in DOMAIN map

\* HashMap::insert: the value of an existing key is replaced.
Insert(map, key, value) ==
    [k \in DOMAIN map \cup {key} |-> IF k = key THEN value ELSE map[k]]

\* The connection Connection::create builds from a service config; serial
\* tells apart the connections created for one service.
Connection(kind, config, serial) ==
    [kind |-> kind, config |-> config, serial |-> serial]

\* The record of one on_discovery call: its arguments and what it did.
Callback(source, config, outcome) ==
    [source |-> source, config |-> config, outcome |-> outcome]

NoCallback == [source |-> "none", config |-> "none", outcome |-> "none"]

\* The entry is inserted before the result of create is unwrapped.
InsertBeforeUnwrap(map, key, connection, ok) == Insert(map, key, connection)

\* An insert that forgets the connection.
InsertForgotten(map, key, connection, ok) == map

\* `let connection = X::create(..).unwrap(); map.insert(id, connection)`:
\* the map after these lines. When create fails, unwrap panics before insert.
InsertUnwrapped(map, key, connection, ok) ==
    IF ok THEN Insert(map, key, connection) ELSE map

\* A match whose second arm takes every pattern but PublishSubscribe.
MatchArmCatchAll(pattern) ==
    IF pattern = "PublishSubscribe" THEN "PublishSubscribe" ELSE "Event"

\* The arm `match iox_service_config.messaging_pattern()` takes.
MatchArm(pattern) ==
    CASE pattern = "PublishSubscribe" -> "PublishSubscribe"
      [] pattern = "Event" -> "Event"
      [] OTHER -> "_"

\* An info! that writes nothing.
LoggedNothing(log, event) == log

\* info!("DISCOVERED({}): ..", source, ..): the log with one more such event.
Logged(log, event) == [log EXCEPT ![event] = @ + 1]

\* An Err of create that is skipped: the callback returns to the scan.
UnwrapOrSkip(ok, at) == at

\* `.unwrap()` on the result of create: where the thread is afterwards. An Err
\* panics and ends the discover call and the thread.
Unwrap(ok, at) == IF ok THEN at ELSE "panicked"

\* on_discovery, with ok the outcome of the connection's create.
on_discovery(source, config, ok) ==
    LET id == config.service_id
        arm == MatchArm(config.messaging_pattern)
        attempt ==
            /\ info_log' = Logged(info_log, [source |-> source, pattern |-> arm, id |-> id])
            /\ create_calls' = [create_calls EXCEPT ![config] = @ + 1]
            /\ created' = IF ok THEN [created EXCEPT ![config] = @ + 1] ELSE created
            /\ failed' = IF ok THEN failed ELSE failed \cup {config}
            /\ last_callback' = Callback(source, config, IF ok THEN "bridged" ELSE "panicked")
            /\ pc' = Unwrap(ok, pc)
        known ==
            /\ last_callback' = Callback(source, config, "known")
            /\ UNCHANGED <<registries, creationVars, failed, pc>>
    IN  CASE arm = "PublishSubscribe" ->
               IF ~ContainsKey(publish_subscribe_connectons, id)
               THEN /\ attempt
                    /\ publish_subscribe_connectons' =
                         InsertUnwrapped(publish_subscribe_connectons, id,
                             Connection("BidirectionalPublishSubscribeConnection",
                                        config, created[config] + 1), ok)
                    /\ UNCHANGED event_connections
               ELSE known
          [] arm = "Event" ->
               IF ~ContainsKey(event_connections, id)
               THEN /\ attempt
                    /\ event_connections' =
                         InsertUnwrapped(event_connections, id,
                             Connection("BidirectionalEventConnection",
                                        config, created[config] + 1), ok)
                    /\ UNCHANGED publish_subscribe_connectons
               ELSE known
          [] OTHER ->
               /\ last_callback' = Callback(source, config, "unsupported")
               /\ UNCHANGED <<registries, creationVars, failed, pc>>

\* `scope == Scope::Iceoryx || scope == Scope::Both`
SelectsIceoryx(s) == s = "Iceoryx" \/ s = "Both"

\* A scope test that lets every scope reach the network source.
SelectsZenohAlways(s) == TRUE

\* `scope == Scope::Zenoh || scope == Scope::Both`
SelectsZenoh(s) == s = "Zenoh" \/ s = "Both"

\* An Err of a discovery source that is dropped instead of returned.
QuestionMarkDropped(r) == "continue"

\* `.map_err(|_e| DiscoveryError::Error)?`: an Err leaves discover at once.
QuestionMark(r) == IF r = "Err" THEN "return" ELSE "continue"

\* What is left of discover once the local scan is over or was not selected:
\* `if scope == Scope::Zenoh || scope == Scope::Both { .. } Ok(())`.
EnterZenoh(s) ==
    IF SelectsZenoh(s)
    THEN /\ pc' = "z_call"
         /\ result' = "none"
    ELSE /\ pc' = "idle"
         /\ result' = "Ok"

\* Tunnel::discover is called with scope s.
Discover(s) ==
    /\ pc = "idle"
    /\ scope' = s
    /\ iox_discovery' = "idle"
    /\ z_discovery' = "idle"
    /\ pending' = {}
    /\ failed' = {}
    /\ last_callback' = NoCallback
    /\ IF SelectsIceoryx(s)
       THEN /\ pc' = "iox_call"
            /\ result' = "none"
       ELSE EnterZenoh(s)
    /\ todo' = {}
    /\ propagated' = [k \in MapKeys |-> 0]
    /\ error_log' = {}
    /\ services' = <<>>
    /\ UNCHANGED <<registries, creationVars>>
    /\ UNCHANGED handles

\* self.iox_discovery.discover(..) is entered: the local source starts a scan
\* of the services it sees.
IceoryxDiscoverBegins ==
    /\ pc = "iox_call"
    /\ pc' = "iox_discover"
    /\ iox_discovery' = "scanning"
    /\ \E v \in Scans : pending' = v
    /\ UNCHANGED <<registries, z_discovery, scope, result, failed, last_callback,
                   creationVars, propagateVars, services>>
    /\ UNCHANGED handles

\* The local callback handing on_discovery the other domain's source.
IceoryxCallbackAsZenoh ==
    /\ pc = "iox_discover"
    /\ \E config \in pending :
         /\ pending' = pending \ {config}
         /\ \E ok \in BOOLEAN : on_discovery("Zenoh", config, ok)
    /\ UNCHANGED <<iox_discovery, z_discovery, scope, result, propagateVars, services>>
    /\ UNCHANGED handles

\* self.iox_discovery.discover(..) invokes its callback for one more service.
IceoryxCallback ==
    /\ pc = "iox_discover"
    /\ \E config \in pending :
         /\ pending' = pending \ {config}
         /\ \E ok \in BOOLEAN : on_discovery("Iceoryx", config, ok)
    /\ UNCHANGED <<iox_discovery, z_discovery, scope, result, propagateVars, services>>
    /\ UNCHANGED handles

\* self.iox_discovery.discover(..) returns r: Ok when the scan is complete, Err
\* at any point of it.
IceoryxDiscoverReturns(r) ==
    /\ pc = "iox_discover"
    /\ r = "Ok" => pending = {}
    /\ iox_discovery' = IF r = "Ok" THEN "done" ELSE "failed"
    /\ pending' = {}
    /\ IF QuestionMark(r) = "return"
       THEN /\ pc' = "idle"
            /\ result' = "DiscoveryError"
            /\ UNCHANGED last_callback
       ELSE /\ EnterZenoh(scope)
            /\ last_callback' = IF SelectsZenoh(scope) THEN NoCallback ELSE last_callback
    /\ UNCHANGED <<registries, z_discovery, scope, failed, creationVars, propagateVars,
                   services>>
    /\ UNCHANGED handles

\* self.z_discovery.discover(..) is entered: the network source starts a scan.
ZenohDiscoverBegins ==
    /\ pc = "z_call"
    /\ pc' = "z_discover"
    /\ z_discovery' = "scanning"
    /\ \E v \in Scans : pending' = v
    /\ UNCHANGED <<registries, iox_discovery, scope, result, failed, last_callback,
                   creationVars, propagateVars, services>>
    /\ UNCHANGED handles

\* self.z_discovery.discover(..) invokes its callback for one more service.
ZenohCallback ==
    /\ pc = "z_discover"
    /\ \E config \in pending :
         /\ pending' = pending \ {config}
         /\ \E ok \in BOOLEAN : on_discovery("Zenoh", config, ok)
    /\ UNCHANGED <<iox_discovery, z_discovery, scope, result, propagateVars, services>>
    /\ UNCHANGED handles

\* discover undoing the maps when the network source fails.
ZenohDiscoverReturnsRollback(r) ==
    /\ pc = "z_discover"
    /\ r = "Ok" => pending = {}
    /\ z_discovery' = IF r = "Ok" THEN "done" ELSE "failed"
    /\ pending' = {}
    /\ pc' = "idle"
    /\ result' = IF QuestionMark(r) = "return" THEN "DiscoveryError" ELSE "Ok"
    /\ publish_subscribe_connectons' =
         IF r = "Ok" THEN publish_subscribe_connectons ELSE EmptyMap
    /\ event_connections' = IF r = "Ok" THEN event_connections ELSE EmptyMap
    /\ UNCHANGED <<iox_discovery, scope, failed, last_callback, creationVars,
                   propagateVars, services>>
    /\ UNCHANGED handles

\* self.z_discovery.discover(..) returns r, and discover returns after it.
ZenohDiscoverReturns(r) ==
    /\ pc = "z_discover"
    /\ r = "Ok" => pending = {}
    /\ z_discovery' = IF r = "Ok" THEN "done" ELSE "failed"
    /\ pending' = {}
    /\ pc' = "idle"
    /\ result' = IF QuestionMark(r) = "return" THEN "DiscoveryError" ELSE "Ok"
    /\ UNCHANGED <<registries, iox_discovery, scope, failed, last_callback, creationVars,
                   propagateVars, services>>
    /\ UNCHANGED handles

\* What a call other than discover leaves of the last discover call's record.
DiscoverRecordCleared ==
    /\ scope' = "none"
    /\ iox_discovery' = "idle"
    /\ z_discovery' = "idle"
    /\ pending' = {}
    /\ failed' = {}
    /\ last_callback' = NoCallback

\* Tunnel::propagate is called: the loop over publish_subscribe_connectons starts.
Propagate ==
    /\ pc = "idle"
    /\ pc' = "propagate_ps"
    /\ result' = "none"
    /\ todo' = DOMAIN publish_subscribe_connectons
    /\ propagated' = [k \in MapKeys |-> 0]
    /\ error_log' = {}
    /\ services' = <<>>
    /\ DiscoverRecordCleared
    /\ UNCHANGED <<registries, creationVars>>
    /\ UNCHANGED handles

\* A loop body that leaves the loop when connection.propagate() fails.
LoopBodyBreaks(m, id, ok) ==
    /\ todo' = IF ok THEN todo \ {id} ELSE {}
    /\ propagated' = [propagated EXCEPT ![<<m, id>>] = @ + 1]
    /\ error_log' = IF ok THEN error_log ELSE error_log \cup {<<m, id>>}
    /\ UNCHANGED pc

\* One iteration of a propagate loop over the map named m: connection.propagate()
\* returns ok, and an Err is logged.
LoopBody(m, id, ok) ==
    /\ todo' = todo \ {id}
    /\ propagated' = [propagated EXCEPT ![<<m, id>>] = @ + 1]
    /\ error_log' = IF ok THEN error_log ELSE error_log \cup {<<m, id>>}
    /\ UNCHANGED pc

\* A loop that removes from the map a connection whose propagate() failed.
PropagateDroppingFailed ==
    /\ pc = "propagate_ps"
    /\ \E id \in todo, ok \in BOOLEAN :
         /\ LoopBody("publish_subscribe_connectons", id, ok)
         /\ publish_subscribe_connectons' =
              IF ok THEN publish_subscribe_connectons
              ELSE [k \in DOMAIN publish_subscribe_connectons \ {id} |->
                      publish_subscribe_connectons[k]]
    /\ UNCHANGED <<event_connections, discoverVars, creationVars, result, services>>
    /\ UNCHANGED handles

\* `for (id, connection) in &self.publish_subscribe_connectons`: one iteration,
\* in the map's iteration order, which is unspecified.
PropagatePublishSubscribe ==
    /\ pc = "propagate_ps"
    /\ \E id \in todo, ok \in BOOLEAN : LoopBody("publish_subscribe_connectons", id, ok)
    /\ UNCHANGED <<registries, discoverVars, creationVars, result, services>>
    /\ UNCHANGED handles

\* The first loop of propagate is over, the loop over event_connections starts.
PropagateNextLoop ==
    /\ pc = "propagate_ps"
    /\ todo = {}
    /\ pc' = "propagate_ev"
    /\ todo' = DOMAIN event_connections
    /\ UNCHANGED <<registries, discoverVars, creationVars, result, propagated, error_log,
                   services>>
    /\ UNCHANGED handles

\* `for (id, connection) in &self.event_connections`: one iteration.
PropagateEvent ==
    /\ pc = "propagate_ev"
    /\ \E id \in todo, ok \in BOOLEAN : LoopBody("event_connections", id, ok)
    /\ UNCHANGED <<registries, discoverVars, creationVars, result, services>>
    /\ UNCHANGED handles

\* The second loop of propagate is over: propagate returns ().
PropagateReturns ==
    /\ pc = "propagate_ev"
    /\ todo = {}
    /\ pc' = "idle"
    /\ result' = "()"
    /\ UNCHANGED <<registries, discoverVars, creationVars, propagateVars, services>>
    /\ UNCHANGED handles

\* The orders in which iterating a key set can visit it.
RECURSIVE Iterations(_)
Iterations(keys) ==
    IF keys = {} THEN {<<>>}
    ELSE UNION {{<<k>> \o rest : rest \in Iterations(keys \ {k})} : k \in keys}

\* ServiceId::as_str().to_string(): the id's text.
AsString(id) == ToString(id)

\* The Vecs Tunnel::tunneled_services can return:
\* keys().chain(keys()).map(|id| id.as_str().to_string()).collect()
TunneledServicesResults ==
    {[i \in 1 .. Len(a) + Len(b) |->
         AsString(IF i <= Len(a) THEN a[i] ELSE b[i - Len(a)])] :
       a \in Iterations(DOMAIN publish_subscribe_connectons),
       b \in Iterations(DOMAIN event_connections)}

\* Tunnel::tunneled_services is called.
TunneledServices ==
    /\ pc = "idle"
    /\ \E vec \in TunneledServicesResults : services' = vec
    /\ result' = "Vec"
    /\ todo' = {}
    /\ propagated' = [k \in MapKeys |-> 0]
    /\ error_log' = {}
    /\ DiscoverRecordCleared
    /\ UNCHANGED <<registries, creationVars, pc>>
    /\ UNCHANGED handles

\* The resources Tunnel::create opens, in the order it opens them.
Resources == {"z_session", "z_discovery", "iox_node", "iox_discovery"}

\* Everything of the Tunnel but the position, the last result and the handles.
tunnelVars == <<registries, discoverVars, creationVars, propagateVars, services>>

\* An early return that keeps the session it opened alive.
DropLocalsLeakingSession(h) ==
    [r \in Resources |-> IF h[r] = "live" /\ r # "z_session" THEN "dropped" ELSE h[r]]

\* `?` leaves create with an Err: the locals bound so far go out of scope and
\* are dropped.
DropLocals(h) == [r \in Resources |-> IF h[r] = "live" THEN "dropped" ELSE h[r]]

\* One `let resource = ..create(..).map_err(|_e| CreationError::Error)?;` of
\* Tunnel::create, at the position at, with ok the outcome of the constructor.
CreateStep(at, resource, ok, next) ==
    /\ pc = at
    /\ IF ok
       THEN /\ handles' = [handles EXCEPT ![resource] = "live"]
            /\ pc' = next
            /\ UNCHANGED result
       ELSE /\ handles' = DropLocals(handles)
            /\ pc' = "no_tunnel"
            /\ result' = "CreationError"
    /\ UNCHANGED tunnelVars

\* zenoh::open(z_config.clone()).wait()
OpenZenohSession ==
    \E ok \in BOOLEAN : CreateStep("create", "z_session", ok, "create_z_discovery")

\* ZenohDiscovery::create(&z_session)
CreateZenohDiscovery ==
    \E ok \in BOOLEAN :
        CreateStep("create_z_discovery", "z_discovery", ok, "create_iox_node")

\* NodeBuilder::new().config(iox_config).create::<Service>()
CreateIceoryxNode ==
    \E ok \in BOOLEAN :
        CreateStep("create_iox_node", "iox_node", ok, "create_iox_discovery")

\* IceoryxDiscovery::create(iox_config, &iox_node, &tunnel_config.discovery_service)
CreateIceoryxDiscovery ==
    \E ok \in BOOLEAN :
        CreateStep("create_iox_discovery", "iox_discovery", ok, "create_return")

\* Both maps are created empty and create returns Ok(Self): the handles move
\* into the Tunnel.
CreateReturns ==
    /\ pc = "create_return"
    /\ pc' = "idle"
    /\ result' = "Tunnel"
    /\ publish_subscribe_connectons' = EmptyMap
    /\ event_connections' = EmptyMap
    /\ UNCHANGED <<discoverVars, creationVars, propagateVars, services, handles>>

\* Tunnel::create is entered: nothing is open, no Tunnel exists.
Init ==
    /\ publish_subscribe_connectons = EmptyMap
    /\ event_connections = EmptyMap
    /\ iox_discovery = "idle"
    /\ z_discovery = "idle"
    /\ pc = "create"
    /\ scope = "none"
    /\ result = "none"
    /\ pending = {}
    /\ failed = {}
    /\ last_callback = NoCallback
    /\ create_calls = [c \in StaticConfig |-> 0]
    /\ created = [c \in StaticConfig |-> 0]
    /\ info_log = [e \in InfoEvents |-> 0]
    /\ todo = {}
    /\ propagated = [k \in MapKeys |-> 0]
    /\ error_log = {}
    /\ services = <<>>
    /\ handles = [r \in Resources |-> "none"]

DiscoverAny == \E s \in Scope : Discover(s)
IceoryxDiscoverOk == IceoryxDiscoverReturns("Ok")
IceoryxDiscoverErr == IceoryxDiscoverReturns("Err")
ZenohDiscoverOk == ZenohDiscoverReturns("Ok")
ZenohDiscoverErr == ZenohDiscoverReturns("Err")

Next ==
    \/ OpenZenohSession
    \/ CreateZenohDiscovery
    \/ CreateIceoryxNode
    \/ CreateIceoryxDiscovery
    \/ CreateReturns
    \/ DiscoverAny
    \/ IceoryxDiscoverBegins
    \/ IceoryxCallback
    \/ IceoryxDiscoverOk
    \/ IceoryxDiscoverErr
    \/ ZenohDiscoverBegins
    \/ ZenohCallback
    \/ ZenohDiscoverOk
    \/ ZenohDiscoverErr
    \/ Propagate
    \/ PropagatePublishSubscribe
    \/ PropagateNextLoop
    \/ PropagateEvent
    \/ PropagateReturns
    \/ TunneledServices

Spec == Init /\ [][Next]_vars

TypeOK ==
    /\ pc \in {"create", "create_z_discovery", "create_iox_node", "create_iox_discovery",
                "create_return", "no_tunnel", "idle", "iox_call", "iox_discover", "z_call",
                "z_discover", "propagate_ps", "propagate_ev", "panicked"}
    /\ scope \in Scope \cup {"none"}
    /\ result \in {"none", "Tunnel", "CreationError", "Ok", "DiscoveryError", "()", "Vec"}
    /\ handles \in [Resources -> {"none", "live", "dropped"}]
    /\ DOMAIN publish_subscribe_connectons \subseteq ServiceIds
    /\ DOMAIN event_connections \subseteq ServiceIds


(***************************************************************************)
(* Properties                                                              *)
(***************************************************************************)

\* The map on_discovery keeps the connections of a pattern in.
ps_entries == {publish_subscribe_connectons[id].config :
                 id \in DOMAIN publish_subscribe_connectons}
ev_entries == {event_connections[id].config : id \in DOMAIN event_connections}

\* The service c has an entry in the map of its pattern.
Bridged(c) ==
    \/ /\ c.messaging_pattern = "PublishSubscribe"
       /\ c.service_id \in DOMAIN publish_subscribe_connectons
    \/ /\ c.messaging_pattern = "Event"
       /\ c.service_id \in DOMAIN event_connections

Supported(c) == c.messaging_pattern \in {"PublishSubscribe", "Event"}

ScanPcs == {"iox_call", "iox_discover", "z_call", "z_discover"}

\* Every entry of both maps is still there, with the same connection, after the step.
EntriesKept ==
    /\ \A id \in DOMAIN publish_subscribe_connectons :
         /\ id \in DOMAIN publish_subscribe_connectons'
         /\ publish_subscribe_connectons'[id] = publish_subscribe_connectons[id]
    /\ \A id \in DOMAIN event_connections :
         /\ id \in DOMAIN event_connections'
         /\ event_connections'[id] = event_connections[id]

\* C1: whatever the scopes, the sources and the repetitions of the discover
\* calls, connection creation has succeeded at most once for each (pattern,
\* identity), and the map of the pattern holds, under that identity, exactly
\* the one connection created for it.
AtMostOneConnectionPerService ==
    /\ \A c \in StaticConfig : created[c] <= 1
    /\ \A c \in StaticConfig : created[c] = 1 <=> Bridged(c)
    /\ \A id \in DOMAIN publish_subscribe_connectons :
         /\ publish_subscribe_connectons[id].serial = 1
         /\ publish_subscribe_connectons[id].config.service_id = id
    /\ \A id \in DOMAIN event_connections :
         /\ event_connections[id].serial = 1
         /\ event_connections[id].config.service_id = id

\* C1 witness: the network source reports again a service that a local scan
\* bridged, and no second connection is created.
RereportedByOtherSource ==
    /\ last_callback.source = "Zenoh"
    /\ last_callback.outcome = "known"
    /\ created[last_callback.config] = 1
    /\ info_log[[source |-> "Iceoryx",
                 pattern |-> last_callback.config.messaging_pattern,
                 id |-> last_callback.config.service_id]] = 1

\* C2 (as claimed): when the creation of one service's connection fails in a
\* discover call, the other services of that scan are still reconciled: once
\* the call is over, none of them is left unreported and unbridged.
FailureIsolationInDiscover ==
    (failed # {} /\ pc \notin ScanPcs) =>
        \A c \in pending : Supported(c) => Bridged(c)

\* C3: when propagate returns, propagate() has been invoked exactly once on
\* every connection of both maps and on nothing else, whichever of them
\* failed; a failing connection ends neither the loop nor the thread.
PropagateVisitsEveryConnectionOnce ==
    /\ \A k \in MapKeys : propagated[k] <= 1
    /\ error_log # {} => pc \in {"propagate_ps", "propagate_ev", "idle"}
    /\ \A k \in error_log : propagated[k] = 1
    /\ (pc = "idle" /\ result = "()") =>
         /\ \A id \in ServiceIds :
              propagated[<<"publish_subscribe_connectons", id>>] =
                 IF id \in DOMAIN publish_subscribe_connectons THEN 1 ELSE 0
         /\ \A id \in ServiceIds :
              propagated[<<"event_connections", id>>] =
                 IF id \in DOMAIN event_connections THEN 1 ELSE 0

\* C3 witness: propagate has returned, a connection failed in it and another
\* connection of the same map did not.
PropagateReturnedAfterFailure ==
    /\ pc = "idle"
    /\ result = "()"
    /\ \E id, other \in DOMAIN publish_subscribe_connectons :
         /\ <<"publish_subscribe_connectons", id>> \in error_log
         /\ <<"publish_subscribe_connectons", other>> \notin error_log
    /\ event_connections # EmptyMap

\* C4: discover(Iceoryx) never invokes the network source, discover(Zenoh)
\* never the local one, and in discover(Both) the network source is invoked
\* only once the local scan, with all its callbacks, has completed.
ScopeFilteringAndOrdering ==
    /\ scope = "Iceoryx" => z_discovery = "idle"
    /\ scope = "Zenoh" => iox_discovery = "idle"
    /\ (scope = "Both" /\ z_discovery # "idle") => iox_discovery = "done"
    /\ z_discovery # "idle" => last_callback.source # "Iceoryx"
    /\ pc \in {"z_call", "z_discover"} => iox_discovery \in {"idle", "done"}

\* C4 witness: in discover(Both) the network source reports a service after
\* the local scan completed.
RemoteScanAfterLocalScan ==
    /\ scope = "Both"
    /\ pc = "z_discover"
    /\ iox_discovery = "done"
    /\ last_callback.source = "Zenoh"
    /\ \E e \in InfoEvents : e.source = "Iceoryx" /\ info_log[e] = 1

\* C5: every entry of the publish-subscribe map was created from a config
\* tagged PublishSubscribe and every entry of the event map from one tagged
\* Event; a config of another pattern causes no create call, no insert and
\* no failure.
PatternPartitioning ==
    /\ \A id \in DOMAIN publish_subscribe_connectons :
         /\ publish_subscribe_connectons[id].config.messaging_pattern = "PublishSubscribe"
         /\ publish_subscribe_connectons[id].kind = "BidirectionalPublishSubscribeConnection"
    /\ \A id \in DOMAIN event_connections :
         /\ event_connections[id].config.messaging_pattern = "Event"
         /\ event_connections[id].kind = "BidirectionalEventConnection"
    /\ \A c \in StaticConfig :
         ~Supported(c) => create_calls[c] = 0 /\ created[c] = 0 /\ c \notin failed
    /\ last_callback.outcome \in {"bridged", "known", "panicked"} =>
         Supported(last_callback.config)

\* C5 witness: a service of an unsupported pattern has just been reported
\* while both maps hold connections.
UnsupportedReported ==
    /\ last_callback.outcome = "unsupported"
    /\ publish_subscribe_connectons # EmptyMap
    /\ event_connections # EmptyMap

\* The elements of a sequence.
Range(seq) == {seq[i] : i \in 1 .. Len(seq)}

\* C6 (as claimed): the Vec tunneled_services returns holds exactly the
\* identities of the two maps and holds none of them twice.
SnapshotConsistency ==
    result = "Vec" =>
        /\ Range(services) =
             {AsString(id) : id \in DOMAIN publish_subscribe_connectons
                                      \cup DOMAIN event_connections}
        /\ \A i, j \in 1 .. Len(services) : i # j => services[i] # services[j]

\* C7 (as claimed): when discover(Both) returns DiscoveryError, the source
\* that did not fail was not invoked in that call.
OtherDomainNotInvoked ==
    (pc = "idle" /\ result = "DiscoveryError" /\ scope = "Both") =>
        \/ iox_discovery = "failed" /\ z_discovery = "idle"
        \/ z_discovery = "failed" /\ iox_discovery = "idle"

\* C7 (amended): a failure of a discovery source ends discover at once with
\* DiscoveryError. When the local source fails, the network source is not
\* invoked in that call; when the network source fails under scope Both, the
\* local source has been invoked before and has completed its scan.
SourceFailureReturnedAtOnce ==
    /\ (iox_discovery = "failed" \/ z_discovery = "failed") <=> result = "DiscoveryError"
    /\ result = "DiscoveryError" => pc = "idle"
    /\ iox_discovery = "failed" => z_discovery = "idle"
    /\ (z_discovery = "failed" /\ scope = "Both") => iox_discovery = "done"

\* C7 witness: discover(Both) returned DiscoveryError from the local source
\* after a callback, without the network source having been invoked.
LocalFailureSkipsRemote ==
    /\ pc = "idle"
    /\ scope = "Both"
    /\ result = "DiscoveryError"
    /\ iox_discovery = "failed"
    /\ z_discovery = "idle"
    /\ last_callback.outcome = "bridged"

\* C8: no step of a discover call, the return of DiscoveryError included,
\* removes or replaces an entry of either map, so what was there before the
\* call and what its callbacks inserted is there when it returns; returning
\* DiscoveryError changes neither map.
DiscoveryErrorRetractsNothing ==
    [][/\ (pc \in ScanPcs \/ pc' \in ScanPcs) => EntriesKept
       /\ (pc \in ScanPcs /\ result' = "DiscoveryError") => UNCHANGED registries]_vars

\* C8 witness: discover(Both) returned DiscoveryError from the network source
\* after its callback inserted a connection, the local scan having completed,
\* and a connection a local scan inserted is in its map.
RemoteFailureAfterInserts ==
    /\ pc = "idle"
    /\ result = "DiscoveryError"
    /\ scope = "Both"
    /\ iox_discovery = "done"
    /\ z_discovery = "failed"
    /\ last_callback.outcome = "bridged"
    /\ Bridged(last_callback.config)
    /\ \E c \in StaticConfig :
         /\ Bridged(c)
         /\ info_log[[source |-> "Iceoryx", pattern |-> c.messaging_pattern,
                      id |-> c.service_id]] = 1

\* C9: the step in which the creation for a service fails changes neither
\* map, and afterwards no entry of either map is a connection of that
\* service: nothing was inserted for it.
FailedCreationLeavesRegistries ==
    [][(pc # "panicked" /\ pc' = "panicked") =>
          /\ UNCHANGED registries
          /\ failed' # {}
          /\ \A c \in failed' : ~Bridged(c)' /\ c \notin ps_entries' \cup ev_entries']_vars

\* C9 witness: creation failed for a service while both maps hold
\* connections, one of them under the same identity in the other pattern.
CreationFailedBesideOthers ==
    /\ pc = "panicked"
    /\ \E c \in failed :
         /\ c.messaging_pattern = "PublishSubscribe"
         /\ c.service_id \in DOMAIN event_connections
    /\ publish_subscribe_connectons # EmptyMap

\* C10 (as claimed): a failed connection creation is not passed on to the
\* caller of discover: the call goes on, to return Ok or DiscoveryError.
ConnectionErrorNotPropagated ==
    \A c \in failed : pc \in ScanPcs \cup {"idle"}

\* A step in which a discovery source invokes its callback.
CallbackStep ==
    /\ pc \in {"iox_discover", "z_discover"}
    /\ pc' \in {pc, "panicked"}
    /\ pending' # pending

\* The callback of such a step is invoked for the service c.
ReportedIn(c) == c \in pending /\ c \notin pending'

\* The domain whose source is scanning.
ScanningDomain == IF pc = "iox_discover" THEN "Iceoryx" ELSE "Zenoh"

\* The number of DISCOVERED events logged for the service c.
Events(c) ==
    info_log[[source |-> "Iceoryx", pattern |-> c.messaging_pattern, id |-> c.service_id]]
      + info_log[[source |-> "Zenoh", pattern |-> c.messaging_pattern, id |-> c.service_id]]

SupportedConfigs == {c \in StaticConfig : Supported(c)}

\* C11: an entry of either map is kept, with the same connection, by every
\* step of every later call: by discover calls that do not report the service
\* or that fail, by propagate calls in which the connection fails, and by
\* tunneled_services.
BridgedIsTerminal == [][EntriesKept]_vars

\* C11 witness: a discover(Both) call failed in its local source before any
\* service was reported, and both maps still hold their connections.
EntriesOutliveFailedDiscover ==
    /\ pc = "idle"
    /\ result = "DiscoveryError"
    /\ iox_discovery = "failed"
    /\ last_callback = NoCallback
    /\ DOMAIN publish_subscribe_connectons = ServiceIds
    /\ event_connections # EmptyMap

\* C12: a callback that is invoked for a service of a supported pattern and
\* does not fail leaves the service with an entry in the map of its pattern,
\* and no later step of the call removes it: when discover returns Ok, every
\* supported service its sources yielded has its entry.
DiscoverIsComplete ==
    [][\A c \in SupportedConfigs :
         /\ (CallbackStep /\ ReportedIn(c) /\ pc' # "panicked") => Bridged(c)'
         /\ (pc \in ScanPcs /\ Bridged(c)) => Bridged(c)'
         /\ (result' = "Ok" /\ last_callback'.outcome # "none"
                            /\ last_callback'.config = c) => Bridged(c)']_vars

\* C12 witness: discover(Both) returned Ok after its callbacks bridged a
\* service in each map.
DiscoverReturnedOkAfterBridging ==
    /\ pc = "idle"
    /\ result = "Ok"
    /\ scope = "Both"
    /\ last_callback.outcome = "bridged"
    /\ last_callback.source = "Zenoh"
    /\ Bridged(last_callback.config)
    /\ publish_subscribe_connectons # EmptyMap
    /\ event_connections # EmptyMap

CreatePcs == {"create", "create_z_discovery", "create_iox_node", "create_iox_discovery",
              "create_return"}

\* C13: create returns CreationError exactly when one of its four steps
\* failed, and then no Tunnel exists and nothing that was opened before the
\* failing step is still live; a Tunnel exists only with all four resources
\* live.
ConstructionRollback ==
    /\ result = "CreationError" <=> pc = "no_tunnel"
    /\ pc = "no_tunnel" =>
         /\ \A r \in Resources : handles[r] # "live"
         /\ \E r \in Resources : handles[r] = "none"
    /\ (\E r \in Resources : handles[r] = "dropped") => pc = "no_tunnel"
    /\ pc \notin CreatePcs \cup {"no_tunnel"} => \A r \in Resources : handles[r] = "live"

\* C13 witness: the network session and its discovery source were opened, the
\* construction of the local node failed, and create returned CreationError
\* with the session released.
NodeFailureReleasedSession ==
    /\ pc = "no_tunnel"
    /\ result = "CreationError"
    /\ handles["z_session"] = "dropped"
    /\ handles["z_discovery"] = "dropped"
    /\ handles["iox_node"] = "none"

PropagatePcs == {"propagate_ps", "propagate_ev"}

\* C14: no step of propagate, whether the connection's propagate() fails or
\* not, and no call of tunneled_services changes either map; tunneled_services
\* changes no log and no connection count either.
OnlyDiscoverChangesRegistries ==
    [][/\ (pc \in PropagatePcs \/ pc' \in PropagatePcs) => UNCHANGED registries
       /\ (pc = "idle" /\ pc' = "idle") =>
             UNCHANGED <<registries, creationVars, handles>>]_vars

\* C14 witness: propagate returned after every connection of both maps failed,
\* and the maps still hold them.
PropagateFailedEverywhere ==
    /\ pc = "idle"
    /\ result = "()"
    /\ publish_subscribe_connectons # EmptyMap
    /\ event_connections # EmptyMap
    /\ \A id \in DOMAIN publish_subscribe_connectons :
         <<"publish_subscribe_connectons", id>> \in error_log
    /\ \A id \in DOMAIN event_connections : <<"event_connections", id>> \in error_log


\* The DISCOVERED event of the service c written for the domain s.
Event(s, c) == [source |-> s, pattern |-> c.messaging_pattern, id |-> c.service_id]

\* The service of the other supported pattern with the identity of c.
OtherPattern(c) ==
    [c EXCEPT !.messaging_pattern =
        IF @ = "PublishSubscribe" THEN "Event" ELSE "PublishSubscribe"]

\* C15: a callback for a service that has an entry in the map of its pattern
\* calls no create, logs no event and changes neither map; a callback for a
\* service without such an entry calls create once, whether or not the other
\* map holds an entry for the same identity.
ReconcilingKnownIsNoOp ==
    [][\A c \in SupportedConfigs :
         (CallbackStep /\ ReportedIn(c)) =>
            IF Bridged(c)
            THEN UNCHANGED <<registries, creationVars, pc>>
            ELSE /\ create_calls'[c] = create_calls[c] + 1
                 /\ Events(c)' = Events(c) + 1]_vars

\* C15 witness: a service whose identity has an entry in both maps was
\* reported again and the callback did nothing: each of the two entries was
\* created while or before the other one existed.
KnownServiceReportedAgain ==
    /\ last_callback.outcome = "known"
    /\ last_callback.source = "Iceoryx"
    /\ Bridged(last_callback.config)
    /\ Bridged(OtherPattern(last_callback.config))
    /\ create_calls[last_callback.config] = 1
    /\ create_calls[OtherPattern(last_callback.config)] = 1

\* C16 as stated: a service has one event when it has an entry and none when
\* it has not.
LogEventsIffBridged ==
    \A c \in SupportedConfigs : Events(c) = IF Bridged(c) THEN 1 ELSE 0

\* C16: every entry of a map has exactly one DISCOVERED event; a service
\* without an entry has no event, except the service whose create failed: its
\* event was written before create was called, and it is the last event of
\* the thread.
LogEventsMatchRegistries ==
    \A c \in SupportedConfigs :
        /\ Bridged(c) => Events(c) = 1
        /\ ~Bridged(c) =>
             \/ Events(c) = 0
             \/ /\ Events(c) = 1
                /\ pc = "panicked"
                /\ failed = {c}
                /\ last_callback.outcome = "panicked"
                /\ last_callback.config = c

\* C16 witness: one service has its entry and its event, and the event of a
\* second service was written for a create that failed.
EventOfFailedCreation ==
    /\ pc = "panicked"
    /\ \E c \in SupportedConfigs : Bridged(c) /\ Events(c) = 1
    /\ \E c \in failed : ~Bridged(c) /\ Events(c) = 1 /\ create_calls[c] = 1

\* C17: an Err of create ends the thread inside the callback: discover has no
\* result, the services the scan had not yet reported are never reported, no
\* step follows, and when the failure is in the local scan the network source
\* was not invoked.
CreationFailureAbortsDiscover ==
    [][/\ pc # "panicked"
       /\ (CallbackStep /\ created' = created /\ create_calls' # create_calls) =>
             /\ pc' = "panicked"
             /\ result' = "none"
             /\ last_callback'.outcome = "panicked"
             /\ failed' = {last_callback'.config}
             /\ \A c \in SupportedConfigs : last_callback'.config = c => ~Bridged(c)'
             /\ (pc = "iox_discover" => z_discovery' = "idle")
       /\ (CallbackStep /\ pc' = "panicked") =>
             created' = created /\ create_calls' # create_calls]_vars

\* C17 witness: under scope Both a create failed in the local scan while a
\* service was still to be reported; the network source is idle.
LocalCreationFailureUnderBoth ==
    /\ pc = "panicked"
    /\ scope = "Both"
    /\ result = "none"
    /\ last_callback.source = "Iceoryx"
    /\ last_callback.outcome = "panicked"
    /\ pending # {}
    /\ z_discovery = "idle"

Domains == {"Iceoryx", "Zenoh"}

\* C18: an event is written only by the callback of the domain that is
\* scanning, for a service without an entry; once the service has its entry
\* no event of it changes, so the domain of its one event is the domain of
\* the first scan that reported it. A network report of a service the local
\* scan bridged changes nothing.
FirstDiscovererWins ==
    [][\A c \in SupportedConfigs :
         /\ \A s \in Domains :
              info_log'[Event(s, c)] # info_log[Event(s, c)] =>
                 /\ CallbackStep /\ ReportedIn(c)
                 /\ s = ScanningDomain
                 /\ ~Bridged(c)
                 /\ info_log'[Event(s, c)] = info_log[Event(s, c)] + 1
         /\ Bridged(c) => Bridged(c)' /\ Events(c)' = 1
         /\ (CallbackStep /\ ReportedIn(c) /\ pc = "z_discover"
               /\ info_log[Event("Iceoryx", c)] = 1) =>
                 UNCHANGED <<registries, creationVars>>]_vars

\* C18 witness: in a discover(Both) call the network scan reported a service
\* that has its one event from the local domain, and the callback did nothing.
RemoteReportOfLocallyBridged ==
    /\ scope = "Both"
    /\ iox_discovery = "done"
    /\ last_callback.source = "Zenoh"
    /\ last_callback.outcome = "known"
    /\ info_log[Event("Iceoryx", last_callback.config)] = 1
    /\ info_log[Event("Zenoh", last_callback.config)] = 0
    /\ created[last_callback.config] = 1


====
